---- MODULE Spec2Model ----
(***************************************************************************)
(* Project and task lifecycle of the d3s_system "proyectos" application:   *)
(* the Django views of proyectos/views.py acting on the models of          *)
(* proyectos/models.py.  No view of proyectos/views.py opens a             *)
(* transaction, so every ORM call is one committed write (autocommit).     *)
(***************************************************************************)
EXTENDS Integers, Sequences, FiniteSets, TLC

(***************************************************************************)
(* Bounds of the model.                                                    *)
(***************************************************************************)
MaxHist == 2
MaxTareas == 2
MaxHoras == 1
MaxReloj == 3

(***************************************************************************)
(* Users and the permission table (django.contrib.auth, external).         *)
(*   mgr : holds proyectos.can_manage_proyectos                            *)
(*   own : responsable of the project                                      *)
(*   mem : member of the project                                           *)
(*   out : neither                                                         *)
(***************************************************************************)
Users == {"mgr", "own", "mem", "out"}
NoUser == "nadie"
Gestores == {"mgr"}
PermEconomia == {"mgr", "own"}
PermAprobarHoras == {"mgr", "mem"}

(* The set proyecto_cambiar_estado falls back to when Proyecto.ESTADOS is   *)
(* empty.                                                                  *)
ESTADOS_FALLBACK == {"nuevo", "en_curso", "en_pausa", "finalizado", "cancelado"}

ESTADOS_PROYECTO ==
    {"planificado", "presupuestado", "aprobado", "en_progreso",
     "en_pausa", "finalizado", "facturacion", "archivado"}
ESTADOS_TAREA == {"todo", "doing", "review", "done"}
ESTADOS_HORA == {"cargada", "aprobada", "rechazada"}
PENDIENTES == {"todo", "doing", "review"}

NoTarea == [existe |-> FALSE]
NoDate == "sin_fecha"
NoBudget == -1

Tareas == 1..MaxTareas
Horas == 1..MaxHoras

(***************************************************************************)
(* Text inputs are sequences of characters; " " is whitespace.             *)
(***************************************************************************)
RECURSIVE LStrip(_)
LStrip(s) == IF s # <<>> /\ Head(s) = " " THEN LStrip(Tail(s)) ELSE s

RECURSIVE RStrip(_)
RStrip(s) ==
    IF s # <<>> /\ s[Len(s)] = " " THEN RStrip(SubSeq(s, 1, Len(s) - 1)) ELSE s

Strip(s) == RStrip(LStrip(s))

(* A CharField that would not strip: the variant against which the reason  *)
(* of an incomplete closure is tested.                                     *)
CharFieldSinStrip(s) == s # <<>>

(* forms.CharField(required=True): strips, then rejects the empty string.  *)
CharFieldValid(s) == Strip(s) # <<>>

(* DateField.to_python on a str: an ISO date parses, anything else raises  *)
(* ValidationError.  An ISO date is one token of the text.                 *)
FechasISO == {"2025-03-01"}
DateValid(raw) == Len(raw) = 1 /\ raw[1] \in FechasISO
ParseDate(raw) == raw[1]

VARIABLES proyecto, facturas, tareas, nextTarea, historial, horas, reloj,
          notifs, resp, enVuelo

vars ==
    <<proyecto, facturas, tareas, nextTarea, historial, horas, reloj, notifs, resp,
      enVuelo>>

(***************************************************************************)
(* _qs_permitidos: the project is visible to managers, to its responsable  *)
(* and to its members.                                                     *)
(***************************************************************************)
QsPermitidos(u) ==
    u \in Gestores \/ proyecto.responsable = u \/ u \in proyecto.miembros

(* _puede_tocar_proyecto: defined in views.py, called by no view.          *)
PuedeTocarProyecto(u) ==
    u \in Gestores \/ (proyecto.responsable # NoUser /\ proyecto.responsable = u)

Existe(t) == tareas[t].existe

(* An assignee test that would let managers through.                       *)
AsignadoOGestor(t, u) ==
    u \in tareas[t].asignados \/ tareas[t].asignado_a = u \/ u \in Gestores

(* The assignee test of the start/finish quick actions: an M2M row, or the *)
(* legacy FK asignado_a.                                                   *)
Asignado(t, u) == u \in tareas[t].asignados \/ tareas[t].asignado_a = u

(* Tarea.asignados_effective: M2M rows plus the legacy FK asignado_a.      *)
AsignadosEffective(t) ==
    tareas[t].asignados \cup
        (IF tareas[t].asignado_a # NoUser THEN {tareas[t].asignado_a} ELSE {})

(* A HistorialProyecto row.  The free text "descripcion" is kept as its     *)
(* parts: what happened, the task (0: none), the states before and after,  *)
(* the reason given and the number of tasks re-dated.                      *)
Evento(tipo, actor, que, t, antes, nuevo, motivo, n) ==
    [tipo |-> tipo, actor |-> actor, que |-> que, t |-> t,
     antes |-> antes, nuevo |-> nuevo, motivo |-> motivo, n |-> n]

EvCambio(actor, t, antes, nuevo) ==
    Evento("estado_tarea", actor, "cambio", t, antes, nuevo, <<>>, 0)

EvTarea(actor, que, t, estado) ==
    Evento("estado_tarea", actor, que, t, "-", estado, <<>>, 0)

EvProyectoSinCuenta(tipo, actor, que, motivo, n) ==
    Evento(tipo, actor, que, 0, "-", "-", motivo, 0)

EvProyecto(tipo, actor, que, motivo, n) ==
    Evento(tipo, actor, que, 0, "-", "-", motivo, n)

Notif(u, titulo, t) == [user |-> u, titulo |-> titulo, tarea |-> t]

(* The response of the last request: the view, the user, the outcome, the  *)
(* task addressed (0: none) and the branch taken.                          *)
Resp(op, u, st, t, det) == [op |-> op, who |-> u, st |-> st, t |-> t, det |-> det]

(* queryset.aggregate(Sum("monto")): None on an empty table, hence "or 0". *)
RECURSIVE SumMontos(_)
SumMontos(fs) == IF fs = <<>> THEN 0 ELSE Head(fs).monto + SumMontos(Tail(fs))

FacturadoAprobado ==
    SumMontos(SelectSeq(facturas, LAMBDA f : f.estado \in {"aprobada", "acreditada"}))

Facturado == SumMontos(facturas)

RegistrarUltimo(ev) == <<ev>>

(* HistorialProyecto.objects.create: one row appended.                     *)
Registrar(ev) == Append(historial, ev)

(* Notificacion.objects.create for the responsable, "if proyecto.responsable". *)
NotifResponsable(titulo, t) ==
    IF proyecto.responsable # NoUser
    THEN {Notif(proyecto.responsable, titulo, t)}
    ELSE {}


(***************************************************************************)
(* A request that changes nothing: only the response is produced.          *)
(***************************************************************************)
Rechazo(op, u, st, t, det) ==
    /\ resp' = Resp(op, u, st, t, det)
    /\ notifs' = {}
    /\ UNCHANGED <<proyecto, facturas, tareas, nextTarea, historial, horas, reloj, enVuelo>>

(***************************************************************************)
(* tarea_cambiar_estado, POST action=start.                                *)
(***************************************************************************)
TareaStart(u, t) ==
    /\ Len(historial) < MaxHist
    /\ IF ~Existe(t) \/ ~QsPermitidos(u)
       THEN Rechazo("start", u, "404", t, "-")
       ELSE IF ~Asignado(t, u)
       THEN Rechazo("start", u, "403", t, "-")
       ELSE IF tareas[t].estado # "todo"
       THEN Rechazo("start", u, "400", t, "-")
       ELSE /\ tareas' = [tareas EXCEPT ![t].estado = "doing",
                                        ![t].asignados = {u}]
            /\ historial' =
                   Registrar(EvCambio(u, t, "todo", "doing"))
            /\ notifs' = NotifResponsable("Estado de tarea cambiado", t)
            /\ resp' = Resp("start", u, "ok", t, "-")
            /\ UNCHANGED <<proyecto, facturas, nextTarea, horas, reloj, enVuelo>>

(***************************************************************************)
(* tarea_cambiar_estado, POST action=finish.                               *)
(***************************************************************************)
TareaFinishSinEstado(u, t) ==
    /\ Len(historial) < MaxHist
    /\ IF ~Existe(t) \/ ~QsPermitidos(u)
       THEN Rechazo("finish", u, "404", t, "-")
       ELSE IF ~Asignado(t, u)
       THEN Rechazo("finish", u, "403", t, "-")
       ELSE /\ tareas' = [tareas EXCEPT ![t].estado = "review"]
            /\ historial' =
                   Registrar(EvCambio(u, t, tareas[t].estado, "review"))
            /\ notifs' = NotifResponsable("Tarea para revision", t)
            /\ resp' = Resp("finish", u, "ok", t, "-")
            /\ UNCHANGED <<proyecto, facturas, nextTarea, horas, reloj, enVuelo>>

TareaFinish(u, t) ==
    /\ Len(historial) < MaxHist
    /\ IF ~Existe(t) \/ ~QsPermitidos(u)
       THEN Rechazo("finish", u, "404", t, "-")
       ELSE IF ~Asignado(t, u)
       THEN Rechazo("finish", u, "403", t, "-")
       ELSE IF tareas[t].estado # "doing"
       THEN Rechazo("finish", u, "400", t, "-")
       ELSE /\ tareas' = [tareas EXCEPT ![t].estado = "review"]
            /\ historial' =
                   Registrar(EvCambio(u, t, "doing", "review"))
            /\ notifs' = NotifResponsable("Tarea para revision", t)
            /\ resp' = Resp("finish", u, "ok", t, "-")
            /\ UNCHANGED <<proyecto, facturas, nextTarea, horas, reloj, enVuelo>>

(***************************************************************************)
(* tarea_cambiar_estado, direct change through POST["estado"].  The only   *)
(* gate is the visibility of the project (_qs_permitidos).                 *)
(***************************************************************************)
EstadosPost == ESTADOS_TAREA \cup {"cancelada"}

(* A direct change that would follow todo -> doing -> review -> done only. *)
TareaCambioSoloAdelante(u, t, nuevo) ==
    /\ Len(historial) < MaxHist
    /\ IF ~Existe(t) \/ ~QsPermitidos(u)
       THEN Rechazo("cambio", u, "404", t, "-")
       ELSE IF <<tareas[t].estado, nuevo>> \notin
                   {<<"todo", "doing">>, <<"doing", "review">>, <<"review", "done">>}
       THEN Rechazo("cambio", u, "invalido", t, "-")
       ELSE /\ tareas' = [tareas EXCEPT ![t].estado = nuevo]
            /\ historial' =
                   Registrar(EvCambio(u, t, tareas[t].estado, nuevo))
            /\ notifs' = NotifResponsable("Estado de tarea cambiado", t) \cup
                   {Notif(a, "Estado de tarea cambiado", t) :
                        a \in tareas[t].asignados}
            /\ resp' = Resp("cambio", u, "ok", t, "-")
            /\ UNCHANGED <<proyecto, facturas, nextTarea, horas, reloj, enVuelo>>

TareaCambioDirecto(u, t, nuevo) ==
    /\ Len(historial) < MaxHist
    /\ IF ~Existe(t) \/ ~QsPermitidos(u)
       THEN Rechazo("cambio", u, "404", t, "-")
       ELSE IF nuevo \notin ESTADOS_TAREA
       THEN Rechazo("cambio", u, "invalido", t, "-")
       ELSE /\ tareas' = [tareas EXCEPT ![t].estado = nuevo]
            /\ historial' =
                   Registrar(EvCambio(u, t, tareas[t].estado, nuevo))
            /\ notifs' = NotifResponsable("Estado de tarea cambiado", t) \cup
                   {Notif(a, "Estado de tarea cambiado", t) :
                        a \in tareas[t].asignados}
            /\ resp' = Resp("cambio", u, "ok", t, "-")
            /\ UNCHANGED <<proyecto, facturas, nextTarea, horas, reloj, enVuelo>>

(* A deletion that would leave no trace in the history.                    *)
TareaEliminarSinEvento(u, t) ==
    /\ Len(historial) < MaxHist
    /\ IF ~Existe(t) \/ ~QsPermitidos(u)
       THEN Rechazo("eliminar", u, "404", t, "-")
       ELSE /\ tareas' = [tareas EXCEPT ![t] = NoTarea]
            /\ notifs' = {}
            /\ resp' = Resp("eliminar", u, "ok", t, "-")
            /\ UNCHANGED <<proyecto, facturas, nextTarea, historial, horas, reloj,
                           enVuelo>>

(***************************************************************************)
(* tarea_eliminar: hard delete, then one event under the project.          *)
(***************************************************************************)
TareaEliminar(u, t) ==
    /\ Len(historial) < MaxHist
    /\ IF ~Existe(t) \/ ~QsPermitidos(u)
       THEN Rechazo("eliminar", u, "404", t, "-")
       ELSE /\ tareas' = [tareas EXCEPT ![t] = NoTarea]
            /\ historial' = Registrar(EvTarea(u, "eliminada", t, "-"))
            /\ notifs' = {}
            /\ resp' = Resp("eliminar", u, "ok", t, "-")
            /\ UNCHANGED <<proyecto, facturas, nextTarea, horas, reloj, enVuelo>>

(* A claim that would not test that the user is assigned.                  *)
TomarTareaSinVerificar(u, t, metodo) ==
    IF metodo # "POST"
    THEN Rechazo("tomar", u, "redirect", t, "-")
    ELSE IF ~Existe(t)
    THEN Rechazo("tomar", u, "404", t, "-")
    ELSE IF Cardinality(tareas[t].asignados) <= 1
    THEN Rechazo("tomar", u, "ya_tomada", t, "-")
    ELSE /\ tareas' = [tareas EXCEPT ![t].asignados = {u}]
         /\ notifs' = {}
         /\ resp' = Resp("tomar", u, "ok", t, "-")
         /\ UNCHANGED <<proyecto, facturas, nextTarea, historial, horas, reloj,
                        enVuelo>>

(***************************************************************************)
(* tomar_tarea ("claim"): POST only; looks the task up without the project *)
(* gate; tests the M2M rows only; writes no history.  proyectos/urls.py    *)
(* holds no route to this view.                                            *)
(***************************************************************************)
Metodos == {"GET", "POST"}

TomarTarea(u, t, metodo) ==
    IF metodo # "POST"
    THEN Rechazo("tomar", u, "redirect", t, "-")
    ELSE IF ~Existe(t)
    THEN Rechazo("tomar", u, "404", t, "-")
    ELSE IF u \notin tareas[t].asignados
    THEN Rechazo("tomar", u, "no_asignado", t, "-")
    ELSE IF Cardinality(tareas[t].asignados) <= 1
    THEN Rechazo("tomar", u, "ya_tomada", t, "-")
    ELSE /\ tareas' = [tareas EXCEPT ![t].asignados = {u}]
         /\ notifs' = {}
         /\ resp' = Resp("tomar", u, "ok", t, "-")
         /\ UNCHANGED <<proyecto, facturas, nextTarea, historial, horas, reloj, enVuelo>>

(***************************************************************************)
(* TareaForm: estado must be one of Tarea.ESTADOS, asignados must be drawn *)
(* from the members and the responsable of the project.                    *)
(***************************************************************************)
Asignables ==
    proyecto.miembros \cup
        (IF proyecto.responsable # NoUser THEN {proyecto.responsable} ELSE {})

TareaFormValid(f) ==
    f.estado \in ESTADOS_TAREA /\ f.asignados \subseteq Asignables

TareaForm(estado, asignados, vence) ==
    [estado |-> estado, asignados |-> asignados, vence_el |-> vence]

TareaForms ==
    {TareaForm("todo", {"mem"}, NoDate),
     TareaForm("doing", {"own", "mem"}, "2025-01-15"),
     TareaForm("todo", {"out"}, NoDate),
     TareaForm("cancelada", {"mem"}, NoDate)}

(***************************************************************************)
(* tarea_editar, POST: saves the form (fields and M2M), notifies the newly *)
(* assigned users, appends an event only when the state changed.           *)
(***************************************************************************)
TareaEditar(u, t, f) ==
    /\ Len(historial) < MaxHist
    /\ IF ~Existe(t) \/ ~QsPermitidos(u)
       THEN Rechazo("editar_tarea", u, "404", t, "-")
       ELSE IF ~TareaFormValid(f)
       THEN Rechazo("editar_tarea", u, "invalido", t, "-")
       ELSE /\ tareas' = [tareas EXCEPT ![t].estado = f.estado,
                                        ![t].asignados = f.asignados,
                                        ![t].vence_el = f.vence_el]
            /\ notifs' = {Notif(a, "Tarea actualizada", t) :
                              a \in (f.asignados \ tareas[t].asignados) \ {u}}
            /\ historial' =
                   IF tareas[t].estado # f.estado
                   THEN Registrar(EvCambio(u, t, tareas[t].estado, f.estado))
                   ELSE historial
            /\ resp' = Resp("editar_tarea", u, "ok", t, "-")
            /\ UNCHANGED <<proyecto, facturas, nextTarea, horas, reloj, enVuelo>>

(***************************************************************************)
(* tarea_crear, POST: the new task takes every field of the form, estado   *)
(* included; one event; the initial assignees other than the actor are     *)
(* notified.                                                               *)
(***************************************************************************)
TareaCrear(u, f) ==
    /\ Len(historial) < MaxHist
    /\ nextTarea \in Tareas
    /\ IF ~QsPermitidos(u)
       THEN Rechazo("crear", u, "404", nextTarea, "-")
       ELSE IF ~TareaFormValid(f)
       THEN Rechazo("crear", u, "invalido", nextTarea, "-")
       ELSE /\ tareas' = [tareas EXCEPT ![nextTarea] =
                              [existe |-> TRUE, estado |-> f.estado,
                               asignados |-> f.asignados, asignado_a |-> NoUser,
                               vence_el |-> f.vence_el]]
            /\ nextTarea' = nextTarea + 1
            /\ notifs' = {Notif(a, "Nueva tarea", nextTarea) :
                              a \in f.asignados \ {u}}
            /\ historial' =
                   Registrar(EvTarea(u, "creada", nextTarea, f.estado))
            /\ resp' = Resp("crear", u, "ok", nextTarea, "-")
            /\ UNCHANGED <<proyecto, facturas, horas, reloj, enVuelo>>


(***************************************************************************)
(* proyecto_cerrar.  The branch is taken on the sum of every invoice of    *)
(* the project against "presupuesto_total or 0".                           *)
(***************************************************************************)
Presupuesto ==
    IF proyecto.presupuesto_total = NoBudget THEN 0 ELSE proyecto.presupuesto_total

CierreIncompleto == Presupuesto # 0 /\ Facturado < Presupuesto

Motivos == {<<>>, <<" ">>, <<" ", "x">>}

(* A request with a "motivo" field: a GET, or a POST carrying the text.    *)
Peticiones ==
    {[metodo |-> "GET", motivo |-> <<>>]} \cup [metodo : {"POST"}, motivo : Motivos]

(* The complete branch saves update_fields=["estado"] only.                *)
CierreCompletoProyecto == [proyecto EXCEPT !.estado = "finalizado"]

ProyectoCerrar(u, metodo, motivo) ==
    /\ Len(historial) < MaxHist
    /\ IF ~QsPermitidos(u)
       THEN Rechazo("cerrar", u, "404", 0, "-")
       ELSE IF CierreIncompleto
       THEN IF metodo = "POST" /\ CharFieldValid(motivo)
            THEN /\ proyecto' = [proyecto EXCEPT !.facturacion_incompleta = TRUE,
                                                 !.estado = "finalizado"]
                 /\ historial' =
                        Registrar(EvProyecto("cierre_incompleto", u, "cierre_incompleto",
                                            Strip(motivo), 0))
                 /\ notifs' = NotifResponsable("cerrado con facturacion incompleta", 0)
                 /\ resp' = Resp("cerrar", u, "ok", 0, "incompleto")
                 /\ UNCHANGED <<facturas, tareas, nextTarea, horas, reloj, enVuelo>>
            ELSE Rechazo("cerrar", u, "form", 0, "incompleto")
       ELSE /\ proyecto' = CierreCompletoProyecto
            /\ historial' = Registrar(EvProyecto("cierre", u, "finalizado", <<>>, 0))
            /\ notifs' = {}
            /\ resp' = Resp("cerrar", u, "ok", 0, "completo")
            /\ UNCHANGED <<facturas, tareas, nextTarea, horas, reloj, enVuelo>>

(***************************************************************************)
(* proyecto_archivar: any method; sets the flag and the state, one event.  *)
(***************************************************************************)
ProyectoArchivar(u) ==
    /\ Len(historial) < MaxHist
    /\ IF ~QsPermitidos(u)
       THEN Rechazo("archivar", u, "404", 0, "-")
       ELSE /\ proyecto' = [proyecto EXCEPT !.is_archivado = TRUE,
                                            !.estado = "archivado"]
            /\ historial' = Registrar(EvProyecto("cierre", u, "archivado", <<>>, 0))
            /\ notifs' = {}
            /\ resp' = Resp("archivar", u, "ok", 0, "-")
            /\ UNCHANGED <<facturas, tareas, nextTarea, horas, reloj, enVuelo>>

(***************************************************************************)
(* proyecto_cambiar_estado: login and POST only (the permission test is    *)
(* commented out); looks the project up in Proyecto, not in                *)
(* _qs_permitidos; writes the state and no history.                        *)
(***************************************************************************)
EstadosProyectoPost == {"facturacion", "cancelado"}

ProyectoCambiarEstado(u, nuevo) ==
    IF nuevo \notin ESTADOS_PROYECTO
    THEN Rechazo("estado_proyecto", u, "400", 0, nuevo)
    ELSE /\ proyecto' = [proyecto EXCEPT !.estado = nuevo]
         /\ notifs' = {}
         /\ resp' = Resp("estado_proyecto", u, "ok", 0, nuevo)
         /\ UNCHANGED <<facturas, tareas, nextTarea, historial, horas, reloj, enVuelo>>

(***************************************************************************)
(* proyecto_editar / editar_modal, POST of a ProyectoForm.  The form holds *)
(* estado and presupuesto_total (min_value=0, optional); the other fields  *)
(* are posted back unchanged.  No history.                                 *)
(***************************************************************************)
ProyectoForms ==
    [estado : {"en_pausa", "cancelado"}, presupuesto_total : {NoBudget, 2}]

ProyectoFormValid(f) == f.estado \in ESTADOS_PROYECTO

ProyectoEditar(u, f) ==
    IF ~QsPermitidos(u)
    THEN Rechazo("editar_proyecto", u, "404", 0, "-")
    ELSE IF ~ProyectoFormValid(f)
    THEN Rechazo("editar_proyecto", u, "invalido", 0, "-")
    ELSE /\ proyecto' = [proyecto EXCEPT !.estado = f.estado,
                                         !.presupuesto_total = f.presupuesto_total]
         /\ notifs' = {}
         /\ resp' = Resp("editar_proyecto", u, "ok", 0, "-")
         /\ UNCHANGED <<facturas, tareas, nextTarea, historial, horas, reloj, enVuelo>>


(***************************************************************************)
(* proyecto_reabrir.                                                       *)
(* Tarea.Meta.ordering = ["estado", "-creado_en"]: the pending tasks come  *)
(* by state name, then newest first (ids grow with creation time).         *)
(***************************************************************************)
RangoEstado(e) ==
    CASE e = "doing" -> 1 [] e = "done" -> 2 [] e = "review" -> 3 [] OTHER -> 4

Antes(a, b) ==
    \/ RangoEstado(tareas[a].estado) < RangoEstado(tareas[b].estado)
    \/ RangoEstado(tareas[a].estado) = RangoEstado(tareas[b].estado) /\ a > b

RECURSIVE Ordenar(_)
Ordenar(S) ==
    IF S = {} THEN <<>>
    ELSE LET m == CHOOSE x \in S : \A y \in S \ {x} : Antes(x, y)
         IN  <<m>> \o Ordenar(S \ {m})

Pendientes == {t \in Tareas : Existe(t) /\ tareas[t].estado \in PENDIENTES}

RawFechas == {<<" ">>, <<"2025-03-01", " ">>, <<"31/12/2025">>}

(* The tasks whose save commits: t.save() raises on the first raw value    *)
(* that is no ISO date, and the loop stops there.                          *)
RECURSIVE Guardadas(_, _)
Guardadas(updates, fechas) ==
    IF updates = <<>> \/ ~DateValid(Strip(fechas[Head(updates)]))
    THEN <<>>
    ELSE <<Head(updates)>> \o Guardadas(Tail(updates), fechas)

Rango(seq) == {seq[i] : i \in 1..Len(seq)}

(* After the save the instance still holds the raw str, so the body of the *)
(* assignee notification, f"{t.vence_el:%d/%m/%Y}", raises ValueError for  *)
(* the first updated task that has an M2M assignee.                        *)
FormatoFalla(updates) == \E i \in 1..Len(updates) : tareas[updates[i]].asignados # {}

ProyectoReabrirSinFaltan(u, metodo, motivo, fechas) ==
    /\ Len(historial) < MaxHist
    /\ LET faltan == {t \in Pendientes : Strip(fechas[t]) = <<>>}
           updates == Ordenar(Pendientes \ faltan)
           ok == Guardadas(updates, fechas)
       IN  IF ~QsPermitidos(u)
           THEN Rechazo("reabrir", u, "404", 0, "-")
           ELSE IF metodo # "POST" \/ ~CharFieldValid(motivo)
           THEN Rechazo("reabrir", u, "form", 0, "-")
           ELSE IF Len(ok) < Len(updates)
           THEN /\ tareas' = [t \in Tareas |->
                                 IF t \in Rango(ok)
                                 THEN [tareas[t] EXCEPT
                                          !.vence_el = ParseDate(Strip(fechas[t]))]
                                 ELSE tareas[t]]
                /\ notifs' = {}
                /\ resp' = Resp("reabrir", u, "500", 0, "fecha_invalida")
                /\ UNCHANGED <<proyecto, facturas, nextTarea, historial, horas, reloj, enVuelo>>
           ELSE /\ tareas' = [t \in Tareas |->
                                 IF t \in Rango(updates)
                                 THEN [tareas[t] EXCEPT
                                          !.vence_el = ParseDate(Strip(fechas[t]))]
                                 ELSE tareas[t]]
                /\ proyecto' = [proyecto EXCEPT !.estado = "planificado",
                                                !.facturacion_incompleta = FALSE]
                /\ historial' =
                       Registrar(EvProyecto("reapertura", u, "reabierto",
                                           Strip(motivo), Len(updates)))
                /\ notifs' = NotifResponsable("Proyecto reabierto", 0)
                /\ resp' = IF FormatoFalla(updates)
                           THEN Resp("reabrir", u, "500", 0, "formato")
                           ELSE Resp("reabrir", u, "ok", 0, "-")
                /\ UNCHANGED <<facturas, nextTarea, horas, reloj, enVuelo>>

ProyectoReabrir(u, metodo, motivo, fechas) ==
    /\ Len(historial) < MaxHist
    /\ LET faltan == {t \in Pendientes : Strip(fechas[t]) = <<>>}
           updates == Ordenar(Pendientes)
           ok == Guardadas(updates, fechas)
       IN  IF ~QsPermitidos(u)
           THEN Rechazo("reabrir", u, "404", 0, "-")
           ELSE IF metodo # "POST" \/ ~CharFieldValid(motivo)
           THEN Rechazo("reabrir", u, "form", 0, "-")
           ELSE IF faltan # {}
           THEN Rechazo("reabrir", u, "form", 0, "faltan")
           ELSE IF Len(ok) < Len(updates)
           THEN /\ tareas' = [t \in Tareas |->
                                 IF t \in Rango(ok)
                                 THEN [tareas[t] EXCEPT
                                          !.vence_el = ParseDate(Strip(fechas[t]))]
                                 ELSE tareas[t]]
                /\ notifs' = {}
                /\ resp' = Resp("reabrir", u, "500", 0, "fecha_invalida")
                /\ UNCHANGED <<proyecto, facturas, nextTarea, historial, horas, reloj, enVuelo>>
           ELSE /\ tareas' = [t \in Tareas |->
                                 IF t \in Pendientes
                                 THEN [tareas[t] EXCEPT
                                          !.vence_el = ParseDate(Strip(fechas[t]))]
                                 ELSE tareas[t]]
                /\ proyecto' = [proyecto EXCEPT !.estado = "planificado",
                                                !.facturacion_incompleta = FALSE]
                /\ historial' =
                       Registrar(EvProyecto("reapertura", u, "reabierto",
                                           Strip(motivo), Len(updates)))
                /\ notifs' = NotifResponsable("Proyecto reabierto", 0)
                /\ resp' = IF FormatoFalla(updates)
                           THEN Resp("reabrir", u, "500", 0, "formato")
                           ELSE Resp("reabrir", u, "ok", 0, "-")
                /\ UNCHANGED <<facturas, nextTarea, horas, reloj, enVuelo>>


(***************************************************************************)
(* Work hours.  horas_aprobar / horas_rechazar are guarded by              *)
(* permission_required("proyectos.can_manage_economia") and by nothing     *)
(* else: the state of the entry is not read.  aprobada_en = now().         *)
(***************************************************************************)
NoHora == [existe |-> FALSE]

PuedeDecidirHoras(u) == u \in PermEconomia

HoraDecididaSoloEstado(h, estado, u) ==
    [horas[h] EXCEPT !.estado = estado]

HoraDecidida(h, estado, u) ==
    [horas[h] EXCEPT !.estado = estado, !.aprobada_por = u, !.aprobada_en = reloj]

DecidirHora(op, estado, u, h) ==
    /\ reloj < MaxReloj
    /\ reloj' = reloj + 1
    /\ notifs' = {}
    /\ UNCHANGED <<proyecto, facturas, tareas, nextTarea, historial, enVuelo>>
    /\ IF ~PuedeDecidirHoras(u)
       THEN resp' = Resp(op, u, "403", h, "-") /\ horas' = horas
       ELSE IF ~horas[h].existe
       THEN resp' = Resp(op, u, "404", h, "-") /\ horas' = horas
       ELSE /\ horas' = [horas EXCEPT ![h] = HoraDecidida(h, estado, u)]
            /\ resp' = Resp(op, u, "ok", h, "-")

HorasAprobar(u, h) == DecidirHora("aprobar", "aprobada", u, h)

HorasRechazar(u, h) == DecidirHora("rechazar", "rechazada", u, h)

(***************************************************************************)
(* horas_nueva, POST of a HoraTrabajoForm.  inicio and fin are required    *)
(* TimeFields read with "%H:%M"; clean() rejects inicio >= fin; the view   *)
(* stores horas = round((fin - inicio) / 3600 s, 2), here in hundredths.   *)
(* A user who may not assign (no can_manage_proyectos; is_staff is not     *)
(* modelled) always loads for themselves.                                  *)
(***************************************************************************)
RawTiempos == {"", "09:00", "09:01", "10:30", "9h"}

TimeValid(raw) == raw \in {"09:00", "09:01", "10:30"}

ParseTime(raw) ==
    CASE raw = "09:00" -> 540 [] raw = "09:01" -> 541 [] raw = "10:30" -> 630
      [] OTHER -> 0

(* round(minutes / 60, 2) in hundredths of an hour: minutes * 5 / 3 has no *)
(* fractional part of one half, so the nearest integer is unambiguous.     *)
HorasCentesimas(ini, fin) == (2 * (fin - ini) * 100 + 60) \div 120

HoraFormSinOrden(f) ==
    /\ TimeValid(f.inicio)
    /\ TimeValid(f.fin)

HoraFormValid(f) ==
    /\ TimeValid(f.inicio)
    /\ TimeValid(f.fin)
    /\ ParseTime(f.inicio) < ParseTime(f.fin)

HoraForms == [usuario : {"own", "mem"}, inicio : RawTiempos, fin : RawTiempos]

NextHora == CHOOSE h \in Horas : ~horas[h].existe /\ \A k \in 1..(h - 1) : horas[k].existe

HorasNueva(u, f) ==
    /\ \E h \in Horas : ~horas[h].existe
    /\ notifs' = {}
    /\ UNCHANGED <<proyecto, facturas, tareas, nextTarea, historial, reloj, enVuelo>>
    /\ IF ~HoraFormValid(f)
       THEN resp' = Resp("horas_nueva", u, "invalido", NextHora, "-") /\ horas' = horas
       ELSE /\ horas' = [horas EXCEPT ![NextHora] =
                            [existe |-> TRUE,
                             usuario |-> IF u \in Gestores THEN f.usuario ELSE u,
                             horas |-> HorasCentesimas(ParseTime(f.inicio),
                                                       ParseTime(f.fin)),
                             estado |-> "cargada",
                             aprobada_por |-> NoUser,
                             aprobada_en |-> 0]]
            /\ resp' = Resp("horas_nueva", u, "ok", NextHora, "-")

(***************************************************************************)
(* tarea_cambiar_estado, action=start, one ORM call at a time.  Requests   *)
(* run in separate workers and no view locks a row or opens a transaction, *)
(* so the queries of two requests interleave freely.  A request in flight  *)
(* holds the line it has reached, its user, its task and the estado of the *)
(* instance it loaded.                                                     *)
(***************************************************************************)
MaxSolicitudes == 2

Solicitudes == 1..MaxSolicitudes

Peticion(pc, u, t, antes, st) ==
    [pc |-> pc, who |-> u, t |-> t, antes |-> antes, st |-> st]

SinPeticion == Peticion("nuevo", NoUser, 0, "-", "-")

Avanza(r, pc) == enVuelo' = [enVuelo EXCEPT ![r].pc = pc]

Termina(r, st) ==
    /\ enVuelo' = [enVuelo EXCEPT ![r].pc = "fin", ![r].st = st]
    /\ resp' = Resp("start", enVuelo[r].who, st, enVuelo[r].t, "-")

(* Lines 834-835: the task and its project are loaded.                     *)
StartCargar(r, u, t) ==
    /\ enVuelo[r].pc = "nuevo"
    /\ IF ~Existe(t) \/ ~QsPermitidos(u)
       THEN /\ enVuelo' = [enVuelo EXCEPT ![r] = Peticion("fin", u, t, "-", "404")]
            /\ resp' = Resp("start", u, "404", t, "-")
       ELSE /\ enVuelo' = [enVuelo EXCEPT ![r] =
                              Peticion("verificar", u, t, tareas[t].estado, "-")]
            /\ resp' = resp
    /\ UNCHANGED <<proyecto, facturas, tareas, nextTarea, historial, horas, reloj,
                   notifs>>

(* Lines 842-860: the M2M rows are queried now; the estado tested is the   *)
(* one of the loaded instance.                                             *)
StartVerificar(r) ==
    /\ enVuelo[r].pc = "verificar"
    /\ IF ~Asignado(enVuelo[r].t, enVuelo[r].who)
       THEN Termina(r, "403")
       ELSE IF enVuelo[r].antes # "todo"
       THEN Termina(r, "400")
       ELSE Avanza(r, "set") /\ resp' = resp
    /\ UNCHANGED <<proyecto, facturas, tareas, nextTarea, historial, horas, reloj,
                   notifs>>

(* Line 864: tarea.asignados.set([request.user]).                          *)
StartSet(r) ==
    /\ enVuelo[r].pc = "set"
    /\ tareas' = [tareas EXCEPT ![enVuelo[r].t].asignados = {enVuelo[r].who}]
    /\ Avanza(r, "save")
    /\ UNCHANGED <<proyecto, facturas, nextTarea, historial, horas, reloj, notifs,
                   resp>>

(* Line 867: UPDATE ... SET estado = 'doing' WHERE id = pk.                *)
StartSave(r) ==
    /\ enVuelo[r].pc = "save"
    /\ tareas' = [tareas EXCEPT ![enVuelo[r].t].estado = "doing"]
    /\ Avanza(r, "historial")
    /\ UNCHANGED <<proyecto, facturas, nextTarea, historial, horas, reloj, notifs,
                   resp>>

(* Lines 869-872: the event, with "antes" as loaded.                       *)
StartHistorial(r) ==
    /\ enVuelo[r].pc = "historial"
    /\ historial' =
           Registrar(EvCambio(enVuelo[r].who, enVuelo[r].t, enVuelo[r].antes, "doing"))
    /\ Avanza(r, "responder")
    /\ UNCHANGED <<proyecto, facturas, tareas, nextTarea, horas, reloj, notifs, resp>>

(* Lines 874-884: the notification and the response.                       *)
StartResponder(r) ==
    /\ enVuelo[r].pc = "responder"
    /\ notifs' = NotifResponsable("Estado de tarea cambiado", enVuelo[r].t)
    /\ Termina(r, "ok")
    /\ UNCHANGED <<proyecto, facturas, tareas, nextTarea, historial, horas, reloj>>

(***************************************************************************)
(* tomar_tarea, one ORM call at a time, with the same requests in flight.  *)
(***************************************************************************)
TerminaTomar(r, u, t, st) ==
    /\ enVuelo' = [enVuelo EXCEPT ![r] = Peticion("fin", u, t, "-", st)]
    /\ resp' = Resp("tomar", u, st, t, "-")

(* Lines 611-614: the task is loaded and the M2M row of the user is looked *)
(* up.                                                                     *)
TomarVerificar(r, u, t) ==
    /\ enVuelo[r].pc = "nuevo"
    /\ IF ~Existe(t)
       THEN TerminaTomar(r, u, t, "404")
       ELSE IF u \notin tareas[t].asignados
       THEN TerminaTomar(r, u, t, "no_asignado")
       ELSE /\ enVuelo' = [enVuelo EXCEPT ![r] = Peticion("contar", u, t, "-", "-")]
            /\ resp' = resp
    /\ UNCHANGED <<proyecto, facturas, tareas, nextTarea, historial, horas, reloj,
                   notifs>>

(* Lines 616-618: tarea.asignados.count().                                 *)
TomarContar(r) ==
    /\ enVuelo[r].pc = "contar"
    /\ IF Cardinality(tareas[enVuelo[r].t].asignados) <= 1
       THEN TerminaTomar(r, enVuelo[r].who, enVuelo[r].t, "ya_tomada")
       ELSE Avanza(r, "tomar") /\ resp' = resp
    /\ UNCHANGED <<proyecto, facturas, tareas, nextTarea, historial, horas, reloj,
                   notifs>>

(* Lines 620-623: tarea.asignados.set([request.user]) and the response.    *)
TomarSet(r) ==
    /\ enVuelo[r].pc = "tomar"
    /\ tareas' = [tareas EXCEPT ![enVuelo[r].t].asignados = {enVuelo[r].who}]
    /\ TerminaTomar(r, enVuelo[r].who, enVuelo[r].t, "ok")
    /\ UNCHANGED <<proyecto, facturas, nextTarea, historial, horas, reloj, notifs>>

(***************************************************************************)
(* Initial states: one project with its responsable and one member, its    *)
(* invoices, and the tasks and hour entries already on record.             *)
(***************************************************************************)
Tarea(estado, asignados, fk, vence) ==
    [existe |-> TRUE, estado |-> estado, asignados |-> asignados,
     asignado_a |-> fk, vence_el |-> vence]

Factura(monto, estado) == [monto |-> monto, estado |-> estado]

ProyectoInicial(presupuesto) ==
    [estado |-> "en_progreso", facturacion_incompleta |-> FALSE,
     is_archivado |-> FALSE, presupuesto_total |-> presupuesto,
     responsable |-> "own", miembros |-> {"mem"}]

RespInicial == Resp("-", NoUser, "-", 0, "-")

InitComun ==
    /\ historial = <<>>
    /\ horas = [h \in Horas |-> NoHora]
    /\ reloj = 1
    /\ notifs = {}
    /\ resp = RespInicial
    /\ enVuelo = [r \in Solicitudes |-> SinPeticion]

(* The tasks on record when the first id is taken and the others are free: *)
(* task 1 with its M2M rows and its legacy FK.                             *)
UnaTarea(estado, asignados, fk) ==
    [t \in Tareas |-> IF t = 1 THEN Tarea(estado, asignados, fk, NoDate) ELSE NoTarea]

(***************************************************************************)
(* The task board: the quick actions, the direct change, the deletion and  *)
(* the claim, on a task "todo" assigned through M2M rows or the legacy FK. *)
(***************************************************************************)
InitTareas ==
    /\ InitComun
    /\ proyecto = ProyectoInicial(NoBudget)
    /\ facturas = <<>>
    /\ \/ tareas = UnaTarea("todo", {"own", "mem"}, NoUser)
       \/ tareas = UnaTarea("todo", {"mem"}, "own")
       \/ tareas = UnaTarea("todo", {"mem"}, "out")
    /\ nextTarea = 2

NextTareas ==
    \/ \E u \in Users, t \in Tareas : TareaStart(u, t)
    \/ \E u \in Users, t \in Tareas : TareaFinish(u, t)
    \/ \E u \in Users, t \in Tareas, e \in EstadosPost : TareaCambioDirecto(u, t, e)
    \/ \E u \in Users, t \in Tareas : TareaEliminar(u, t)
    \/ \E u \in Users, t \in Tareas, m \in Metodos : TomarTarea(u, t, m)

SpecTareas == InitTareas /\ [][NextTareas]_vars

(***************************************************************************)
(* Two (MaxSolicitudes) start requests in flight on the same board.        *)
(***************************************************************************)
InitConcurrente ==
    /\ InitComun
    /\ proyecto = ProyectoInicial(NoBudget)
    /\ facturas = <<>>
    /\ \/ tareas = UnaTarea("todo", {"own", "mem"}, NoUser)
       \/ tareas = UnaTarea("todo", {"mem"}, "own")
       \/ tareas = UnaTarea("doing", {"mem"}, NoUser)
    /\ nextTarea = 2

NextConcurrente ==
    \/ \E r \in Solicitudes, u \in Users, t \in Tareas : StartCargar(r, u, t)
    \/ \E r \in Solicitudes : StartVerificar(r)
    \/ \E r \in Solicitudes : StartSet(r)
    \/ \E r \in Solicitudes : StartSave(r)
    \/ \E r \in Solicitudes : StartHistorial(r)
    \/ \E r \in Solicitudes : StartResponder(r)

SpecConcurrente == InitConcurrente /\ [][NextConcurrente]_vars

(* The claim requests in flight on the same board.                         *)
NextReclamos ==
    \/ \E r \in Solicitudes, u \in Users, t \in Tareas : TomarVerificar(r, u, t)
    \/ \E r \in Solicitudes : TomarContar(r)
    \/ \E r \in Solicitudes : TomarSet(r)

SpecReclamos == InitConcurrente /\ [][NextReclamos]_vars

(***************************************************************************)
(* The project lifecycle: a project in progress with a budget of 3, two    *)
(* invoices of 1 each (one still "cargada"), and two tasks on record.      *)
(***************************************************************************)
FacturasIniciales == <<Factura(1, "cargada"), Factura(1, "aprobada")>>

DosTareas(asignados1, estado2) ==
    [t \in Tareas |->
        IF t = 1 THEN Tarea("todo", asignados1, NoUser, NoDate)
        ELSE IF t = 2 THEN Tarea(estado2, {}, NoUser, "2025-01-15")
        ELSE NoTarea]

InitProyecto ==
    /\ InitComun
    /\ proyecto = ProyectoInicial(3)
    /\ facturas = FacturasIniciales
    /\ \E a1 \in {{}, {"mem"}}, e2 \in {"doing", "done"} : tareas = DosTareas(a1, e2)
    /\ nextTarea = 3

ActoresProyecto == {"own", "mem", "out"}

NextProyecto ==
    \/ \E u \in ActoresProyecto, r \in Peticiones :
           ProyectoCerrar(u, r.metodo, r.motivo)
    \/ \E u \in ActoresProyecto, r \in Peticiones, fe \in [Pendientes -> RawFechas] :
           ProyectoReabrir(u, r.metodo, r.motivo, fe)
    \/ \E u \in ActoresProyecto : ProyectoArchivar(u)
    \/ \E u \in ActoresProyecto, e \in EstadosProyectoPost :
           ProyectoCambiarEstado(u, e)
    \/ \E u \in ActoresProyecto, f \in ProyectoForms : ProyectoEditar(u, f)

SpecProyecto == InitProyecto /\ [][NextProyecto]_vars

(***************************************************************************)
(* Closure and reopening alone, on the same project.                       *)
(***************************************************************************)
NextReapertura ==
    \/ \E u \in ActoresProyecto, r \in Peticiones :
           ProyectoCerrar(u, r.metodo, r.motivo)
    \/ \E u \in ActoresProyecto, r \in Peticiones, fe \in [Pendientes -> RawFechas] :
           ProyectoReabrir(u, r.metodo, r.motivo, fe)

SpecReapertura == InitProyecto /\ [][NextReapertura]_vars

(***************************************************************************)
(* The audited operations together: start, finish, direct change and       *)
(* deletion of a task, closure and reopening of the project.               *)
(***************************************************************************)
NextAuditoria ==
    \/ \E u \in ActoresProyecto, t \in Tareas : TareaStart(u, t)
    \/ \E u \in ActoresProyecto, t \in Tareas : TareaFinish(u, t)
    \/ \E u \in ActoresProyecto, t \in Tareas, e \in {"done", "cancelada"} :
           TareaCambioDirecto(u, t, e)
    \/ \E u \in ActoresProyecto, t \in Tareas : TareaEliminar(u, t)
    \/ \E u \in ActoresProyecto, r \in Peticiones :
           ProyectoCerrar(u, r.metodo, r.motivo)
    \/ \E u \in ActoresProyecto, r \in Peticiones, fe \in [Pendientes -> RawFechas] :
           ProyectoReabrir(u, r.metodo, r.motivo, fe)

SpecAuditoria == InitProyecto /\ [][NextAuditoria]_vars

(***************************************************************************)
(* The routed operations outside the quick actions: the task form          *)
(* (creation and edition), the direct project state change and the         *)
(* project form.                                                           *)
(***************************************************************************)
InitEdicion ==
    /\ InitComun
    /\ proyecto = ProyectoInicial(3)
    /\ facturas = FacturasIniciales
    /\ tareas = UnaTarea("todo", {"own", "mem"}, NoUser)
    /\ nextTarea = 2

NextEdicion ==
    \/ \E u \in ActoresProyecto, t \in Tareas, f \in TareaForms : TareaEditar(u, t, f)
    \/ \E u \in ActoresProyecto, f \in TareaForms : TareaCrear(u, f)
    \/ \E u \in ActoresProyecto, e \in EstadosProyectoPost :
           ProyectoCambiarEstado(u, e)
    \/ \E u \in ActoresProyecto, f \in ProyectoForms : ProyectoEditar(u, f)

SpecEdicion == InitEdicion /\ [][NextEdicion]_vars

(***************************************************************************)
(* Every operation that writes the state of a task or of the project.      *)
(***************************************************************************)
ActoresEstados == {"own"}

NextEstados ==
    \/ \E u \in ActoresEstados, t \in Tareas : TareaStart(u, t)
    \/ \E u \in ActoresEstados, t \in Tareas : TareaFinish(u, t)
    \/ \E u \in ActoresEstados, t \in Tareas, e \in EstadosPost :
           TareaCambioDirecto(u, t, e)
    \/ \E u \in ActoresEstados, t \in Tareas, f \in TareaForms : TareaEditar(u, t, f)
    \/ \E u \in ActoresEstados, f \in TareaForms : TareaCrear(u, f)
    \/ \E u \in ActoresEstados, r \in Peticiones :
           ProyectoCerrar(u, r.metodo, r.motivo)
    \/ \E u \in ActoresEstados, r \in Peticiones, fe \in [Pendientes -> RawFechas] :
           ProyectoReabrir(u, r.metodo, r.motivo, fe)
    \/ \E u \in ActoresEstados : ProyectoArchivar(u)
    \/ \E u \in ActoresEstados, e \in EstadosProyectoPost :
           ProyectoCambiarEstado(u, e)
    \/ \E u \in ActoresEstados, f \in ProyectoForms : ProyectoEditar(u, f)

SpecEstados == InitEdicion /\ [][NextEstados]_vars

(***************************************************************************)
(* The hour entries: loading, approval and rejection.                      *)
(***************************************************************************)
InitHoras ==
    /\ InitComun
    /\ proyecto = ProyectoInicial(NoBudget)
    /\ facturas = <<>>
    /\ tareas = [t \in Tareas |-> NoTarea]
    /\ nextTarea = 1

NextHoras ==
    \/ \E u \in Users, f \in HoraForms : HorasNueva(u, f)
    \/ \E u \in Users, h \in Horas : HorasAprobar(u, h)
    \/ \E u \in Users, h \in Horas : HorasRechazar(u, h)

SpecHoras == InitHoras /\ [][NextHoras]_vars

(***************************************************************************)
(* Properties.                                                             *)
(***************************************************************************)

(* C1: reopening is all-or-nothing: whatever the outcome of a reopen       *)
(* request, either every pending task has its new due date and the project *)
(* is planned, or no task and no project field changed.                    *)
C1_ReabrirTodoONada ==
    [][resp'.op = "reabrir" =>
          \/ tareas' = tareas /\ proyecto' = proyecto
          \/ /\ proyecto'.estado = "planificado"
             /\ \A t \in Pendientes : tareas'[t].vence_el \in FechasISO]_vars

C3_UnSoloStart ==
    /\ \A r1, r2 \in Solicitudes :
           /\ enVuelo[r1].st = "ok"
           /\ enVuelo[r2].st = "ok"
           /\ enVuelo[r1].t = enVuelo[r2].t
           => enVuelo[r1].who = enVuelo[r2].who
    /\ \A t \in Tareas :
           Cardinality({i \in 1..Len(historial) :
                           /\ historial[i].t = t
                           /\ historial[i].antes = "todo"
                           /\ historial[i].nuevo = "doing"}) <= 1

(* C4, as the code has it: when a budget is set and the invoiced total is  *)
(* below it, a close request by a user who sees the project changes the    *)
(* project if and only if it is a POST whose reason is not empty once      *)
(* stripped of surrounding whitespace: then the project is finished and    *)
(* flagged, and exactly one cierre_incompleto event carrying the stripped  *)
(* reason is appended; otherwise project and history are unchanged.        *)
C4_CierreIncompletoConMotivo ==
    [][resp'.op = "cerrar" =>
       \A u \in ActoresProyecto, r \in Peticiones :
          /\ ProyectoCerrar(u, r.metodo, r.motivo)
          /\ QsPermitidos(u)
          /\ proyecto.presupuesto_total # NoBudget
          /\ Facturado < proyecto.presupuesto_total
          => IF r.metodo = "POST" /\ Strip(r.motivo) # <<>>
             THEN /\ proyecto'.estado = "finalizado"
                  /\ proyecto'.facturacion_incompleta
                  /\ Len(historial') = Len(historial) + 1
                  /\ SubSeq(historial', 1, Len(historial)) = historial
                  /\ historial'[Len(historial')].tipo = "cierre_incompleto"
                  /\ historial'[Len(historial')].motivo = Strip(r.motivo)
             ELSE proyecto' = proyecto /\ historial' = historial]_vars

(* C4, as stated: on the incomplete branch the project changes if and only *)
(* if the reason supplied is not the empty string.                         *)
C4_CierreIncompletoMotivoNoVacio ==
    [][resp'.op = "cerrar" =>
       \A u \in ActoresProyecto, r \in Peticiones :
          /\ ProyectoCerrar(u, r.metodo, r.motivo)
          /\ QsPermitidos(u)
          /\ proyecto.presupuesto_total # NoBudget
          /\ Facturado < proyecto.presupuesto_total
          => IF r.metodo = "POST" /\ r.motivo # <<>>
             THEN /\ proyecto'.estado = "finalizado"
                  /\ proyecto'.facturacion_incompleta
                  /\ Len(historial') = Len(historial) + 1
             ELSE proyecto' = proyecto /\ historial' = historial]_vars

(* C4: an incomplete closure went through: the project is finished and     *)
(* flagged and the last event carries the reason.                          *)
C4_CerradoIncompleto ==
    /\ resp.op = "cerrar"
    /\ resp.st = "ok"
    /\ resp.det = "incompleto"
    /\ proyecto.estado = "finalizado"
    /\ proyecto.facturacion_incompleta
    /\ historial # <<>>
    /\ historial[Len(historial)].tipo = "cierre_incompleto"
    /\ historial[Len(historial)].motivo = <<"x">>

(* C5: a close request by a user who sees the project, taken while the     *)
(* budget is unset or the invoiced total reaches it, succeeds and leaves   *)
(* the project finished with facturacion_incompleta false.                 *)
C5_CierreCompletoSinBandera ==
    [][/\ resp'.op = "cerrar"
       /\ QsPermitidos(resp'.who)
       /\ \/ proyecto.presupuesto_total = NoBudget
          \/ Facturado >= proyecto.presupuesto_total
       => /\ resp'.st = "ok"
          /\ proyecto'.estado = "finalizado"
          /\ ~proyecto'.facturacion_incompleta]_vars

(* C6: facturacion_incompleta is true only while the project is finished.  *)
C6_BanderaSoloFinalizado ==
    proyecto.facturacion_incompleta => proyecto.estado = "finalizado"

(* C7: an hour entry is decided at most once: an entry already approved or *)
(* rejected keeps its state, its approving user and its decision time.     *)
C7_DecisionUnica ==
    [][\A h \in Horas :
          horas[h].existe /\ horas[h].estado # "cargada" => horas'[h] = horas[h]]_vars

(* C8: a direct change of a task's state goes through only for a manager   *)
(* or the responsable of the project.                                      *)
C8_CambioSoloGestorOResponsable ==
    [][resp'.op = "cambio" /\ resp'.st = "ok" =>
          resp'.who \in Gestores \/ resp'.who = proyecto.responsable]_vars

(* C9: a successful start, finish, direct change, close, reopen or task    *)
(* deletion appends exactly one event to the history of the project, and   *)
(* one that fails its guard (not found, not assigned, wrong state, invalid *)
(* value, missing reason or date) appends none.                            *)
C9_UnEventoPorOperacion ==
    [][resp'.op \in {"start", "finish", "cambio", "cerrar", "reabrir", "eliminar"} =>
          /\ resp'.st = "ok" =>
                 /\ Len(historial') = Len(historial) + 1
                 /\ SubSeq(historial', 1, Len(historial)) = historial
                 /\ historial'[Len(historial')].actor = resp'.who
          /\ resp'.st \in {"404", "403", "400", "invalido", "form"} =>
                 historial' = historial]_vars

(* C9: a task was deleted and the deletion is the last event.              *)
C9_EliminadaConEvento ==
    /\ resp.op = "eliminar"
    /\ resp.st = "ok"
    /\ ~tareas[resp.t].existe
    /\ historial # <<>>
    /\ historial[Len(historial)].que = "eliminada"
    /\ historial[Len(historial)].t = resp.t

(* C10: every change of the state or the flags of the project, or of the   *)
(* state or the assignees of a task, comes with exactly one new event.     *)
C10_CambioConEvento ==
    [][\/ proyecto'.estado # proyecto.estado
       \/ proyecto'.facturacion_incompleta # proyecto.facturacion_incompleta
       \/ proyecto'.is_archivado # proyecto.is_archivado
       \/ \E t \in Tareas :
              /\ Existe(t)
              /\ tareas'[t].existe
              /\ \/ tareas'[t].estado # tareas[t].estado
                 \/ tareas'[t].asignados # tareas[t].asignados
       => Len(historial') = Len(historial) + 1]_vars

(* C11: a change and its event are one unit: in no reachable state has a   *)
(* start request persisted the new state of its task while the history     *)
(* holds no event of that request for that task.                           *)
C11_CambioYEventoJuntos ==
    \A r \in Solicitudes :
        /\ enVuelo[r].pc \notin {"nuevo", "verificar", "set", "save"}
        /\ enVuelo[r].st \in {"-", "ok"}
        => \E i \in 1..Len(historial) :
               /\ historial[i].actor = enVuelo[r].who
               /\ historial[i].t = enVuelo[r].t
               /\ historial[i].nuevo = "doing"

(* C12: a claim by a user among several assignees leaves that user as the  *)
(* sole assignee; a claim by the sole assignee is answered without an      *)
(* error and changes nothing; a claim by a user who is not assigned is     *)
(* refused and changes nothing.  No claim touches the state of the task or *)
(* the history.                                                            *)
C12_TomarTarea ==
    [][resp'.op = "tomar" /\ resp'.st # "redirect" /\ Existe(resp'.t) =>
          /\ IF resp'.who \notin tareas[resp'.t].asignados
             THEN resp'.st = "no_asignado" /\ tareas' = tareas
             ELSE IF tareas[resp'.t].asignados = {resp'.who}
             THEN resp'.st = "ya_tomada" /\ tareas' = tareas
             ELSE /\ resp'.st = "ok"
                  /\ tareas'[resp'.t].asignados = {resp'.who}
                  /\ tareas'[resp'.t].estado = tareas[resp'.t].estado
          /\ historial' = historial]_vars

(* C12: after own's claim on a task of own and mem, mem's claim was        *)
(* refused and own is still the sole assignee.                             *)
C12_SegundoRechazado ==
    /\ resp.op = "tomar"
    /\ resp.st = "no_asignado"
    /\ resp.who = "mem"
    /\ tareas[resp.t].existe
    /\ tareas[resp.t].asignados = {"own"}
    /\ tareas[resp.t].estado = "todo"
    /\ historial = <<>>

(* C13: of the claims of different users in flight on one task, exactly    *)
(* one reports success, and once they have all answered the assignee set   *)
(* is the singleton of the user whose claim succeeded.                     *)
C13_UnSoloReclamo ==
    \A r1, r2 \in Solicitudes :
        /\ enVuelo[r1].st = "ok"
        /\ enVuelo[r2].pc = "fin"
        /\ enVuelo[r1].t = enVuelo[r2].t
        /\ enVuelo[r1].who # enVuelo[r2].who
        => /\ enVuelo[r2].st # "ok"
           /\ tareas[enVuelo[r1].t].asignados = {enVuelo[r1].who}

(* C14: after a successful start the task is "doing" and the actor is the  *)
(* only user who passes the assignee check of start and finish and the     *)
(* membership check of the claim.                                          *)
C14_StartDejaUnSoloAsignado ==
    resp.op = "start" /\ resp.st = "ok" =>
        /\ tareas[resp.t].estado = "doing"
        /\ \A v \in Users :
               (Asignado(resp.t, v) \/ v \in AsignadosEffective(resp.t)) => v = resp.who

(* C15: finish succeeds only on a task "doing" whose assignees include the *)
(* actor, and then moves it to "review" leaving its assignees as they      *)
(* were; on a task in any other state it fails and leaves the tasks and    *)
(* the history as they were.                                               *)
C15_FinishSoloDoing ==
    [][resp'.op = "finish" /\ Existe(resp'.t) =>
          /\ resp'.st = "ok" =>
                 /\ tareas[resp'.t].estado = "doing"
                 /\ resp'.who \in AsignadosEffective(resp'.t)
                 /\ tareas' = [tareas EXCEPT ![resp'.t].estado = "review"]
          /\ tareas[resp'.t].estado # "doing" =>
                 /\ resp'.st # "ok"
                 /\ tareas' = tareas
                 /\ historial' = historial]_vars

C15_EnRevision ==
    /\ resp.op = "finish" /\ resp.st = "ok"
    /\ tareas[resp.t].estado = "review"
    /\ resp.who \in tareas[resp.t].asignados
    /\ Len(historial) = 2
    /\ historial[2].antes = "doing" /\ historial[2].nuevo = "review"

(* C16: a reopen request that leaves a pending task without a due date     *)
(* (absent or blank) does not succeed and changes no task, no project      *)
(* field and no history, whatever it supplies for the other tasks.         *)
C16_ReabrirSinFechaNoEscribe ==
    [][resp'.op = "reabrir" =>
          \A p \in Peticiones, fechas \in [Pendientes -> RawFechas] :
              /\ \E t \in Pendientes : Strip(fechas[t]) = <<>>
              /\ ProyectoReabrir(resp'.who, p.metodo, p.motivo, fechas)
              => /\ resp'.st # "ok"
                 /\ tareas' = tareas
                 /\ proyecto' = proyecto
                 /\ historial' = historial]_vars

C16_FaltanFechas ==
    /\ resp.op = "reabrir" /\ resp.st = "form" /\ resp.det = "faltan"
    /\ proyecto.estado = "finalizado"
    /\ Pendientes # {}
    /\ Len(historial) = 1 /\ historial[1].tipo # "reapertura"

(* C17: a reopen that reports success leaves the project "planificado"     *)
(* with facturacion_incompleta false, gives every task that was pending    *)
(* the date supplied for it, leaves every other task and every task state  *)
(* as they were, and appends exactly one "reapertura" event that records   *)
(* the number of tasks re-dated.                                           *)
C17_ReaperturaCompleta ==
    [][resp'.op = "reabrir" /\ resp'.st = "ok" =>
          \A p \in Peticiones, fechas \in [Pendientes -> RawFechas] :
              ProyectoReabrir(resp'.who, p.metodo, p.motivo, fechas) =>
                  /\ proyecto'.estado = "planificado"
                  /\ ~proyecto'.facturacion_incompleta
                  /\ \A t \in Tareas :
                         IF tareas[t].existe /\ tareas[t].estado \in PENDIENTES
                         THEN tareas'[t] =
                                  [tareas[t] EXCEPT !.vence_el = Head(Strip(fechas[t]))]
                         ELSE tareas'[t] = tareas[t]
                  /\ Len(historial') = Len(historial) + 1
                  /\ SubSeq(historial', 1, Len(historial)) = historial
                  /\ historial'[Len(historial')].tipo = "reapertura"
                  /\ historial'[Len(historial')].actor = resp'.who
                  /\ historial'[Len(historial')].n =
                         Cardinality({t \in Tareas : tareas[t].existe
                                                     /\ tareas[t].estado \in PENDIENTES})]_vars

C17_Reabierto ==
    /\ resp.op = "reabrir" /\ resp.st = "ok"
    /\ proyecto.estado = "planificado" /\ ~proyecto.facturacion_incompleta
    /\ Len(historial) = 2
    /\ historial[1].tipo = "cierre_incompleto"
    /\ historial[2].tipo = "reapertura" /\ historial[2].n = 1
    /\ tareas[1].estado = "todo" /\ tareas[1].vence_el = "2025-03-01"
    /\ tareas[2].estado = "done" /\ tareas[2].vence_el = "2025-01-15"

(* C18: a valid reopen request that supplies a date for every pending task *)
(* reports success and produces one notification for the responsable and   *)
(* one for every assignee of every task it re-dated.                       *)
C18_ReabrirNotifica ==
    [][resp'.op = "reabrir" =>
          \A p \in Peticiones, fechas \in [Pendientes -> RawFechas] :
              /\ QsPermitidos(resp'.who)
              /\ p.metodo = "POST" /\ CharFieldValid(p.motivo)
              /\ \A t \in Pendientes : DateValid(Strip(fechas[t]))
              /\ ProyectoReabrir(resp'.who, p.metodo, p.motivo, fechas)
              => /\ resp'.st = "ok"
                 /\ notifs' = NotifResponsable("Proyecto reabierto", 0) \cup
                        {Notif(a, "Tarea reabierta", t) :
                             <<a, t>> \in {x \in Users \X Pendientes :
                                              x[1] \in tareas[x[2]].asignados}}]_vars

(* C19: reopen writes only on a project "finalizado": a reopen that        *)
(* succeeds takes the project from "finalizado" to "planificado", and a    *)
(* reopen on a project in any other state changes nothing.                 *)
C19_ReabrirSoloFinalizado ==
    [][resp'.op = "reabrir" =>
          /\ resp'.st = "ok" =>
                 proyecto.estado = "finalizado" /\ proyecto'.estado = "planificado"
          /\ proyecto.estado # "finalizado" =>
                 proyecto' = proyecto /\ tareas' = tareas /\ historial' = historial]_vars

(* C20: attempt_close takes the incomplete branch exactly when the budget  *)
(* is set and the amounts of all the invoices of the project, whatever     *)
(* their state, add up to strictly less than the budget; otherwise it      *)
(* takes the complete branch.                                              *)
C20_RamaDeCierre ==
    [][resp'.op = "cerrar" /\ resp'.st # "404" =>
          LET suma[i \in 0..Len(facturas)] ==
                  IF i = 0 THEN 0 ELSE suma[i - 1] + facturas[i].monto
              incompleto == /\ proyecto.presupuesto_total # NoBudget
                            /\ suma[Len(facturas)] < proyecto.presupuesto_total
          IN  /\ resp'.det = IF incompleto THEN "incompleto" ELSE "completo"
              /\ resp'.st = "ok" =>
                     proyecto'.facturacion_incompleta =
                         (incompleto \/ proyecto.facturacion_incompleta)]_vars

C20_CierreCompletoConCargadas ==
    /\ resp.op = "cerrar" /\ resp.st = "ok" /\ resp.det = "completo"
    /\ proyecto.estado = "finalizado"
    /\ proyecto.presupuesto_total = 2
    /\ \E i \in 1..Len(facturas) : facturas[i].estado = "cargada"

(* C21: archival is terminal: once the project is "archivado", no later    *)
(* operation (close, reopen, direct state change, edit) takes its state    *)
(* away from "archivado".                                                  *)
C21_ArchivadoTerminal ==
    [][proyecto.estado = "archivado" => proyecto'.estado = "archivado"]_vars

(* C22: every task created by create_task is "todo" right after its        *)
(* creation, whatever the form carried, and the creation appends exactly   *)
(* one event to the history of the project.                                *)
C22_CreadaEnTodo ==
    [][resp'.op = "crear" /\ resp'.st = "ok" =>
          /\ ~tareas[resp'.t].existe
          /\ tareas'[resp'.t].existe
          /\ tareas'[resp'.t].estado = "todo"
          /\ Len(historial') = Len(historial) + 1
          /\ SubSeq(historial', 1, Len(historial)) = historial]_vars

(* C23: a task is created in the project only by a manager or by the       *)
(* responsable of the project; a user who is only a member creates none.   *)
C23_CrearSoloGestorOResponsable ==
    [][resp'.op = "crear" /\ tareas' # tareas =>
          resp'.who \in Gestores \/ resp'.who = proyecto.responsable]_vars

(* C24: approve and reject change an hour entry only for a user who holds  *)
(* the hour-approval permission (can_approve_horas), and such a user       *)
(* always decides an entry that is "cargada".                              *)
C24_DecideQuienPuedeAprobar ==
    [][resp'.op \in {"aprobar", "rechazar"} =>
          /\ horas' # horas => resp'.who \in PermAprobarHoras
          /\ /\ resp'.who \in PermAprobarHoras
             /\ horas[resp'.t].existe
             /\ horas[resp'.t].estado = "cargada"
             => /\ horas'[resp'.t].estado \in {"aprobada", "rechazada"}
                /\ horas'[resp'.t].aprobada_por = resp'.who]_vars

(* C25: submit stores an hour entry only with a duration above zero: the   *)
(* entry it stores is "cargada" with horas > 0, and a submission whose end *)
(* is not after its start, or whose start or end is missing or unreadable, *)
(* is rejected and stores nothing.                                         *)
C25_HorasPositivas ==
    [][resp'.op = "horas_nueva" =>
          /\ \A h \in Horas :
                 horas'[h].existe /\ ~horas[h].existe =>
                     horas'[h].estado = "cargada" /\ horas'[h].horas > 0
          /\ \A f \in HoraForms :
                 /\ \/ f.inicio \notin {"09:00", "09:01", "10:30"}
                    \/ f.fin \notin {"09:00", "09:01", "10:30"}
                    \/ ParseTime(f.fin) <= ParseTime(f.inicio)
                 /\ resp'.st = "ok" \/ horas' # horas
                 => ~HorasNueva(resp'.who, f)]_vars

C25_UnMinutoCargado ==
    /\ resp.op = "horas_nueva" /\ resp.st = "ok"
    /\ horas[resp.t].existe
    /\ horas[resp.t].estado = "cargada"
    /\ horas[resp.t].horas = 2

(* C26: the history of the project is append-only: every step keeps the    *)
(* events on record as they are, in their order, and can only add events   *)
(* after them; the number of events never decreases.                       *)
C26_HistorialSoloCrece ==
    [][/\ Len(historial') >= Len(historial)
       /\ \A i \in 1..Len(historial) : historial'[i] = historial[i]]_vars

C26_EventoSobreviveATarea ==
    /\ resp.op = "eliminar" /\ resp.st = "ok"
    /\ ~tareas[1].existe
    /\ Len(historial) = 2
    /\ historial[1].t = 1 /\ historial[1].nuevo = "doing"

(* C27: a direct change requested by a manager or by the responsable with  *)
(* a new state among todo, doing, review, done sets the task to that state *)
(* from any state (backwards and to the same state included), leaves its   *)
(* assignees as they were and appends exactly one event old -> new.        *)
C27_CambioDirectoLibre ==
    [][/\ resp'.op = "cambio"
       /\ tareas[resp'.t].existe
       /\ resp'.who \in Gestores \/ resp'.who = proyecto.responsable
       => \A e \in {"todo", "doing", "review", "done"} :
              TareaCambioDirecto(resp'.who, resp'.t, e) =>
                  /\ resp'.st = "ok"
                  /\ tareas' = [tareas EXCEPT ![resp'.t].estado = e]
                  /\ Len(historial') = Len(historial) + 1
                  /\ SubSeq(historial', 1, Len(historial)) = historial
                  /\ historial'[Len(historial')].actor = resp'.who
                  /\ historial'[Len(historial')].t = resp'.t
                  /\ historial'[Len(historial')].antes = tareas[resp'.t].estado
                  /\ historial'[Len(historial')].nuevo = e]_vars

C27_VueltaATodo ==
    /\ resp.op = "cambio" /\ resp.st = "ok" /\ resp.who \in Gestores
    /\ tareas[resp.t].estado = "todo"
    /\ tareas[resp.t].asignados # {}
    /\ Len(historial) = 2
    /\ historial[1].antes = "todo" /\ historial[1].nuevo = "doing"
    /\ historial[2].antes = "doing" /\ historial[2].nuevo = "todo"

(* C28: every task on record is todo, doing, review or done and the        *)
(* project is in one of its eight declared states; a direct change of a    *)
(* task or of the project to any other value is rejected and leaves the    *)
(* tasks, the project and the history as they were.                        *)
C28_EstadosDeclarados ==
    [][/\ \A t \in Tareas :
              tareas'[t].existe => tareas'[t].estado \in {"todo", "doing", "review", "done"}
       /\ proyecto'.estado \in {"planificado", "presupuestado", "aprobado", "en_progreso",
                                "en_pausa", "finalizado", "facturacion", "archivado"}
       /\ resp'.op = "cambio" =>
              \A e \in EstadosPost \ {"todo", "doing", "review", "done"} :
                  TareaCambioDirecto(resp'.who, resp'.t, e) =>
                      /\ resp'.st # "ok"
                      /\ tareas' = tareas /\ historial' = historial
       /\ resp'.op = "estado_proyecto" =>
              \A e \in EstadosProyectoPost \
                       {"planificado", "presupuestado", "aprobado", "en_progreso",
                        "en_pausa", "finalizado", "facturacion", "archivado"} :
                  ProyectoCambiarEstado(resp'.who, e) =>
                      /\ resp'.st # "ok"
                      /\ proyecto' = proyecto /\ historial' = historial]_vars

C28_CanceladoRechazado ==
    /\ resp.op = "estado_proyecto" /\ resp.st = "400" /\ resp.det = "cancelado"
    /\ proyecto.estado = "facturacion"
    /\ \E t \in Tareas : tareas[t].existe /\ tareas[t].estado = "done"

(* C29: an hour entry "cargada" has no approving user and no decision      *)
(* time, an entry "aprobada" or "rechazada" has both; the two fields are    *)
(* written only by approve and reject, together with the state.            *)
C29_DecisionConEstado ==
    [][/\ \A h \in Horas :
              horas'[h].existe =>
                  /\ horas'[h].estado \in {"cargada", "aprobada", "rechazada"}
                  /\ horas'[h].estado = "cargada" =>
                         horas'[h].aprobada_por = NoUser /\ horas'[h].aprobada_en = 0
                  /\ horas'[h].estado # "cargada" =>
                         horas'[h].aprobada_por # NoUser /\ horas'[h].aprobada_en > 0
       /\ \A h \in Horas :
              /\ horas[h].existe
              /\ \/ horas'[h].aprobada_por # horas[h].aprobada_por
                 \/ horas'[h].aprobada_en # horas[h].aprobada_en
                 \/ horas'[h].estado # horas[h].estado
              => /\ resp'.op \in {"aprobar", "rechazar"} /\ resp'.t = h
                 /\ horas'[h].estado =
                        (IF resp'.op = "aprobar" THEN "aprobada" ELSE "rechazada")
                 /\ horas'[h].aprobada_por = resp'.who
                 /\ horas'[h].aprobada_en = reloj]_vars

C29_Rechazada ==
    /\ resp.op = "rechazar" /\ resp.st = "ok"
    /\ horas[resp.t].existe
    /\ horas[resp.t].estado = "rechazada"
    /\ horas[resp.t].aprobada_por = resp.who
    /\ horas[resp.t].aprobada_en = 1

(* C30: a user who is neither a manager nor the responsable nor a member   *)
(* of the project changes nothing of it through close, reopen, archive,    *)
(* the direct state change or the edit form.                               *)
C30_AjenoNoCambiaProyecto ==
    [][/\ resp'.op \in {"cerrar", "reabrir", "archivar", "estado_proyecto",
                        "editar_proyecto"}
       /\ resp'.who \notin Gestores
       /\ resp'.who # proyecto.responsable
       /\ resp'.who \notin proyecto.miembros
       => proyecto' = proyecto]_vars

====
